---- MODULE Spec2Model ----
(***************************************************************************)
(* SQLite-to-Excel converter: the per-table transform pipeline             *)
(* (src/src/database.py, timestamp_converter.py, formatters.py,            *)
(* excel_writer.py) and the batch driver (src/main.py).                    *)
(*                                                                         *)
(* Strings whose characters the code inspects (column names, table names,  *)
(* file extensions) are sequences of one-character strings.  Epoch seconds *)
(* exceed the checker's 32-bit integers, so a number n is the pair         *)
(* [d, s] with n = d * 86400 + s and 0 <= s < 86400.                       *)
(***************************************************************************)
EXTENDS Integers, Sequences, FiniteSets, TLC

VARIABLES
    call, ret,                          \* a direct call of one library function
    db_path, output_path, db,           \* convert_db_to_excel: arguments, database
    pc, err, tables, t, df, writer,     \* convert_db_to_excel: locals
    fs, log,                            \* file system effects, steps performed
    conns,                              \* database connections not yet closed
    input_dir, files, mpc, i,           \* main: discovery and loop position
    success_count, error_count,         \* main: counters
    attempts, outputs, status           \* main: conversions started, files written, exit

callVars  == <<call, ret>>
convVars  == <<db_path, output_path, db, pc, err, tables, t, df, writer, fs, log,
               conns>>
mainVars  == <<input_dir, files, mpc, i, success_count, error_count,
               attempts, outputs, status>>
vars      == <<call, ret, db_path, output_path, db, pc, err, tables, t, df,
               writer, fs, log, conns, input_dir, files, mpc, i, success_count,
               error_count, attempts, outputs, status>>

(***************************************************************************)
(* Bounds of the model.                                                    *)
(***************************************************************************)
MaxRows   == 2      \* rows per table
MaxCols   == 2      \* columns per source table
MaxTables == 2      \* tables per database
MaxLookup == 2      \* rows of the data_format lookup table
MaxFiles  == 3      \* database files discovered by main

(***************************************************************************)
(* Strings.                                                                *)
(***************************************************************************)
UpperChars == <<"A","B","C","D","E","F","G","H","I","J","K","L","M",
                "N","O","P","Q","R","S","T","U","V","W","X","Y","Z">>
LowerChars == <<"a","b","c","d","e","f","g","h","i","j","k","l","m",
                "n","o","p","q","r","s","t","u","v","w","x","y","z">>

LowerChar(c) ==
    IF \E k \in DOMAIN UpperChars : UpperChars[k] = c
    THEN LowerChars[CHOOSE k \in DOMAIN UpperChars : UpperChars[k] = c]
    ELSE c

\* str.lower()
lower(s) == [k \in 1..Len(s) |-> LowerChar(s[k])]

\* the Python test  kw in s
Contains(s, kw) ==
    \E k \in 0..(Len(s) - Len(kw)) : SubSeq(s, k + 1, k + Len(kw)) = kw

\* the value None, where the code expects a string
None == <<"None">>

\* str(x) of a name that may be None
str(x) == IF x = None THEN <<"N","o","n","e">> ELSE x

(***************************************************************************)
(* constants.py                                                            *)
(***************************************************************************)
DB_FILE_EXTENSION           == <<".","d","b">>
EXCEL_FILE_EXTENSION        == <<".","x","l","s","x">>
EXCEL_MAX_SHEET_NAME_LENGTH == 31
UNIX_TIMESTAMP_MIN          == [d |-> 10957, s |-> 0]     \* 946684800
UNIX_TIMESTAMP_MAX          == [d |-> 47482, s |-> 0]     \* 4102444800
TIMESTAMP_KEYWORDS          == << <<"t","i","m","e">>,
                                  <<"t","i","m","e","s","t","a","m","p">>,
                                  <<"d","a","t","e">> >>
TIMESTAMP_READABLE_SUFFIX   == <<"_","r","e","a","d","a","b","l","e">>
ROW_NUMBER_COLUMN_NAME      == <<"R","o","w">>

(***************************************************************************)
(* Cells.  A cell is NULL, a text v, an integer d * 86400 + s, or (in a    *)
(* derived column) a date-time.                                            *)
(***************************************************************************)
Null       == [k |-> "null", d |-> 0, s |-> 0, v |-> <<>>]
Text(v)    == [k |-> "text", d |-> 0, s |-> 0, v |-> v]
Num(d, s)  == [k |-> "int", d |-> d, s |-> s, v |-> <<>>]
Small(n)   == Num(0, n)

\* a <= b on numbers
Leq(a, b) == a.d < b.d \/ (a.d = b.d /\ a.s <= b.s)

IsNull(c) == c.k = "null"

\* the column dtype pandas infers for values fetched from SQLite
\* (pd.read_sql_query): text makes the column object, a column of nothing
\* but NULLs (or of no rows) stays object, integers with or without NULLs
\* are numeric.
InferDtype(values) ==
    IF \E k \in DOMAIN values : values[k].k = "text" THEN "object"
    ELSE IF \A k \in DOMAIN values : IsNull(values[k]) THEN "object"
    ELSE IF \E k \in DOMAIN values : IsNull(values[k]) THEN "float64"
    ELSE "int64"

Series(name, values) ==
    [name |-> name, dtype |-> InferDtype(values), values |-> values]

\* pd.api.types.is_numeric_dtype
is_numeric_dtype(series) == series.dtype \in {"int64", "float64"}

\* Series.dropna()
RECURSIVE DropNa(_)
DropNa(values) ==
    IF values = <<>> THEN <<>>
    ELSE IF IsNull(Head(values)) THEN DropNa(Tail(values))
    ELSE <<Head(values)>> \o DropNa(Tail(values))

\* a mutation of between: the upper bound left out
betweenUpperExclusive(c, left, right) ==
    c.k = "int" /\ Leq(left, c) /\ Leq(c, right) /\ ~Leq(right, c)

\* Series.between(left, right), inclusive on both sides
between(c, left, right) == c.k = "int" /\ Leq(left, c) /\ Leq(c, right)

(***************************************************************************)
(* timestamp_converter.py                                                  *)
(***************************************************************************)
NameGate(name) ==
    \E k \in DOMAIN TIMESTAMP_KEYWORDS :
        Contains(lower(str(name)), TIMESTAMP_KEYWORDS[k])

is_unix_timestamp_column(series) ==
    IF ~NameGate(series.name) THEN FALSE
    ELSE IF ~is_numeric_dtype(series) THEN FALSE
    ELSE LET non_null == DropNa(series.values) IN
         IF Len(non_null) = 0 THEN FALSE
         ELSE \A k \in DOMAIN non_null :
                  between(non_null[k], UNIX_TIMESTAMP_MIN, UNIX_TIMESTAMP_MAX)

\* pd.to_datetime(values, unit='s', errors='coerce'): the instant that many
\* seconds after the epoch; what is no number becomes NaT.
to_datetime(c) ==
    IF c.k = "int" THEN [k |-> "datetime", d |-> c.d, s |-> c.s, v |-> <<>>]
    ELSE Null

Names(frame) == [k \in DOMAIN frame |-> frame[k].name]

InColumns(frame, name) == \E k \in DOMAIN frame : frame[k].name = name

\* frame[col] is a Series only when one column bears the name; with two of
\* them it is a DataFrame, which has no attribute "name".
HasDuplicateNames(frame) ==
    \E a, b \in DOMAIN frame : a # b /\ frame[a].name = frame[b].name

Returned(frame)    == [ok |-> TRUE, df |-> frame, err |-> "none"]
Raised(frame, e)   == [ok |-> FALSE, df |-> frame, err |-> e]

\* DataFrame.insert(loc, name, values): refuses a name the frame already has
DfInsert(frame, loc, col) ==
    IF InColumns(frame, col.name) THEN Raised(frame, "ValueError")
    ELSE Returned(SubSeq(frame, 1, loc) \o <<col>> \o SubSeq(frame, loc + 1, Len(frame)))

\* the readable columns and their insert positions, in column order
RECURSIVE ReadableColumns(_, _)
ReadableColumns(frame, k) ==
    IF k > Len(frame) THEN <<>>
    ELSE IF is_unix_timestamp_column(frame[k])
         THEN << [loc |-> k,
                  col |-> [name   |-> str(frame[k].name) \o TIMESTAMP_READABLE_SUFFIX,
                           dtype  |-> "datetime64",
                           values |-> [r \in DOMAIN frame[k].values |->
                                          to_datetime(frame[k].values[r])]]] >>
              \o ReadableColumns(frame, k + 1)
         ELSE ReadableColumns(frame, k + 1)

\* a mutation of InsertionOrder: left to right
InsertionOrderAscending(todo) == todo

\* sorted(insert_positions.keys(), key=position, reverse=True)
InsertionOrder(todo) == [k \in DOMAIN todo |-> todo[Len(todo) + 1 - k]]

RECURSIVE InsertAll(_, _)
InsertAll(frame, todo) ==
    IF todo = <<>> THEN Returned(frame)
    ELSE LET r == DfInsert(frame, Head(todo).loc, Head(todo).col) IN
         IF r.ok THEN InsertAll(r.df, Tail(todo)) ELSE r

convert_timestamps_to_readable(frame) ==
    IF HasDuplicateNames(frame) THEN Raised(frame, "AttributeError")
    ELSE InsertAll(frame, InsertionOrder(ReadableColumns(frame, 1)))

(***************************************************************************)
(* formatters.py                                                           *)
(***************************************************************************)
NRows(frame) == IF frame = <<>> THEN 0 ELSE Len(frame[1].values)

\* a mutation of RowNumbers: counting from zero
RowNumbersFromZero(n) == [r \in 1..n |-> Small(r - 1)]

\* range(1, len(df) + 1)
RowNumbers(n) == [r \in 1..n |-> Small(r)]

add_row_numbers(frame) ==
    DfInsert(frame, 0, [name   |-> ROW_NUMBER_COLUMN_NAME,
                        dtype  |-> "int64",
                        values |-> RowNumbers(NRows(frame))])

(***************************************************************************)
(* database.py.  A database is its tables in sqlite_master order; a table  *)
(* is [name, cols], cols a sequence of [name, values] in column order.     *)
(***************************************************************************)
DigitChars == <<"0","1","2","3","4","5","6","7","8","9">>

\* the decimal text of a natural number, as an f-string prints it
RECURSIVE Digits(_)
Digits(n) ==
    IF n < 10 THEN <<DigitChars[n + 1]>>
    ELSE Digits(n \div 10) \o <<DigitChars[(n % 10) + 1]>>

DATA_FORMAT       == <<"d","a","t","a","_","f","o","r","m","a","t">>
DATA_FORMAT_INDEX == DATA_FORMAT \o <<"_","i","n","d","e","x">>
COMMENT           == <<"c","o","m","m","e","n","t">>

\* a mutation of DataFormatColumn: the index taken one too high
DataFormatColumnOffByOne(cell) == DATA_FORMAT \o <<"_">> \o Digits(cell.s + 1)

\* f"data_format_{row['data_format_index']}" for an integer index
DataFormatColumn(cell) == DATA_FORMAT \o <<"_">> \o Digits(cell.s)

HasTable(database, name) ==
    \E k \in DOMAIN database : database[k].name = name

TableNamed(database, name) ==
    database[CHOOSE k \in DOMAIN database : database[k].name = name]

ColumnOf(table, name) ==
    table.cols[CHOOSE k \in DOMAIN table.cols : table.cols[k].name = name]

\* a text cell read back as a column name, NULL as None
AsName(cell) == IF cell.k = "text" THEN cell.v ELSE None

\* rename_map: for each lookup row in turn, the column it names (if the
\* frame has it) is mapped to the row's comment; a later row overwrites.
\* The index column is taken to hold integers, as the spec's data model has it.
RenameTarget(frame, indexes, comments, name) ==
    LET rows == {r \in DOMAIN indexes :
                    /\ indexes[r].k = "int"
                    /\ DataFormatColumn(indexes[r]) = name
                    /\ InColumns(frame, name)} IN
    IF rows = {} THEN name
    ELSE AsName(comments[CHOOSE r \in rows : \A q \in rows : q <= r])

\* the body of the try: block.  An absent lookup table returns the frame at
\* once; one without the two columns makes the query raise.
RenameTry(frame, database) ==
    IF ~HasTable(database, DATA_FORMAT) THEN Returned(frame)
    ELSE LET lk == TableNamed(database, DATA_FORMAT) IN
         IF ~(InColumns(lk.cols, DATA_FORMAT_INDEX) /\ InColumns(lk.cols, COMMENT))
         THEN Raised(frame, "DatabaseError")
         ELSE LET indexes  == ColumnOf(lk, DATA_FORMAT_INDEX).values
                  comments == ColumnOf(lk, COMMENT).values
              IN Returned([k \in DOMAIN frame |->
                     [frame[k] EXCEPT !.name =
                         RenameTarget(frame, indexes, comments, frame[k].name)]])

\* a mutation of rename_data_format_columns: without the except clause
RenameUnguarded(frame, database) == RenameTry(frame, database)

\* try: ... except Exception: pass; return df
rename_data_format_columns(frame, database) ==
    LET r == RenameTry(frame, database) IN
    IF r.ok THEN r ELSE Returned(frame)

SQLITE == <<"s","q","l","i","t","e">>

\* name LIKE 'sqlite_%': LIKE ignores case, _ stands for any one character
LikeSqlitePrefix(name) ==
    Len(name) >= Len(SQLITE) + 1 /\ SubSeq(lower(name), 1, Len(SQLITE)) = SQLITE

RECURSIVE SelectNames(_)
SelectNames(database) ==
    IF database = <<>> THEN <<>>
    ELSE IF LikeSqlitePrefix(Head(database).name) THEN SelectNames(Tail(database))
    ELSE <<Head(database).name>> \o SelectNames(Tail(database))

\* get_all_tables: the names of the tables that are not SQLite's own, in
\* sqlite_master order
get_all_tables(database) == SelectNames(database)

\* pd.read_sql_query('SELECT * FROM "<name>"'): every column, every row
ReadFrame(table) ==
    [k \in DOMAIN table.cols |-> Series(table.cols[k].name, table.cols[k].values)]

(***************************************************************************)
(* Inputs: column names, cells, frames, lookup tables.                     *)
(***************************************************************************)
N_id            == <<"i","d">>
N_id_count      == <<"i","d","_","c","o","u","n","t">>
N_Time          == <<"T","i","m","e">>
N_updated       == <<"u","p","d","a","t","e","d">>
N_Time_readable == N_Time \o TIMESTAMP_READABLE_SUFFIX
N_Voltage       == <<"V","o","l","t","a","g","e">>
N_readings      == <<"r","e","a","d","i","n","g","s">>
N_events        == <<"e","v","e","n","t","s">>
DF0             == DATA_FORMAT \o <<"_","0">>
DF1             == DATA_FORMAT \o <<"_","1">>

BelowMin == Num(10956, 86399)      \* 946684799
AtMin    == Num(10957, 0)          \* 946684800
AtMax    == Num(47482, 0)          \* 4102444800
AboveMax == Num(47482, 1)          \* 4102444801

SeqsUpTo(S, n) == UNION {[1..k -> S] : k \in 0..n}

\* the sequences of n values of S that repeat their second value from there on
Repeating(S, n) ==
    IF n <= 2 THEN [1..n -> S]
    ELSE { f \o [j \in 1..(n - 2) |-> f[2]] : f \in [1..2 -> S] }

\* the frames read from the tables with columns named from `names` and
\* cells from `cells`: column names are distinct, as SQLite has them, and
\* the cells are free in the first two rows of the first two columns
FramesOver(names, cells) ==
    UNION { UNION { { [k \in 1..c |-> Series(ns[k], vs[k])] :
                        vs \in Repeating(Repeating(cells, r), c) } :
                    ns \in {f \in [1..c -> names] :
                               \A a, b \in 1..c : a # b => f[a] # f[b]} } :
            <<c, r>> \in (1..MaxCols) \X (0..MaxRows) }

LookupTable(rows) ==
    [name |-> DATA_FORMAT,
     cols |-> << [name |-> DATA_FORMAT_INDEX,
                  values |-> [k \in DOMAIN rows |-> rows[k][1]]],
                 [name |-> COMMENT,
                  values |-> [k \in DOMAIN rows |-> rows[k][2]]] >>]

\* a table named data_format that lacks the comment column
MalformedLookup ==
    [name |-> DATA_FORMAT,
     cols |-> << [name |-> DATA_FORMAT_INDEX, values |-> <<>>] >>]

TsCalls ==
    { [fn |-> "is_unix_timestamp_column", arg |-> Series(n, vs), database |-> <<>>] :
        n  \in {N_id, N_id_count, N_Time, N_updated},
        vs \in SeqsUpTo({Null, Text(<<"x">>), BelowMin, AtMin, AtMax, AboveMax},
                        MaxRows) }

ExpandCalls ==
    { [fn |-> "convert_timestamps_to_readable", arg |-> f, database |-> <<>>] :
        f \in FramesOver({N_id, N_Time, N_updated, N_Time_readable},
                         {Null, AtMax, AboveMax}) }

RenameCalls ==
    { [fn |-> "rename_data_format_columns", arg |-> f, database |-> d] :
        f \in FramesOver({N_id, DF0, DF1, N_Time}, {AtMax}),
        d \in {<<>>, <<MalformedLookup>>}
              \cup { <<LookupTable(rows)>> :
                       rows \in UNION { Repeating({Small(0), Small(1), Small(2)}
                                                  \X {Text(N_Voltage), Text(N_id),
                                                      Text(DF1), Null}, n) :
                                        n \in 0..MaxLookup } } }

(***************************************************************************)
(* Direct calls of the three library functions.                            *)
(***************************************************************************)
NotReturned == [done |-> FALSE, val |-> Returned(<<>>)]

ConvIdle ==
    /\ db_path = "unused" /\ output_path = "unused" /\ db = <<>>
    /\ pc = "unused" /\ err = "none" /\ tables = <<>> /\ t = 0 /\ df = <<>>
    /\ writer = "unused" /\ fs = "unused" /\ log = <<>> /\ conns = <<>>

MainIdle ==
    /\ input_dir = "unused" /\ files = <<>> /\ mpc = "unused" /\ i = 0
    /\ success_count = 0 /\ error_count = 0
    /\ attempts = <<>> /\ outputs = {} /\ status = "unused"

CallsIdle == call = "unused" /\ ret = "unused"

CallIsUnixTimestampColumn ==
    /\ call.fn = "is_unix_timestamp_column" /\ ~ret.done
    /\ ret' = [done |-> TRUE,
               val  |-> [ok |-> TRUE, df |-> <<>>, err |-> "none",
                         bool |-> is_unix_timestamp_column(call.arg)]]
    /\ UNCHANGED <<call, convVars, mainVars>>

CallConvertTimestamps ==
    /\ call.fn = "convert_timestamps_to_readable" /\ ~ret.done
    /\ ret' = [done |-> TRUE, val |-> convert_timestamps_to_readable(call.arg)]
    /\ UNCHANGED <<call, convVars, mainVars>>

CallRename ==
    /\ call.fn = "rename_data_format_columns" /\ ~ret.done
    /\ ret' = [done |-> TRUE,
               val  |-> rename_data_format_columns(call.arg, call.database)]
    /\ UNCHANGED <<call, convVars, mainVars>>

(***************************************************************************)
(* database.py: table listing and table reading.                           *)
(***************************************************************************)
\* the characters of [\w\s]
IsWordOrSpace(c) ==
    \/ \E k \in DOMAIN UpperChars : UpperChars[k] = c \/ LowerChars[k] = c
    \/ \E k \in DOMAIN DigitChars : DigitChars[k] = c
    \/ c \in {"_", " ", "\t", "\n"}

\* a mutation of ValidIdentifier: the character check left out
ValidIdentifierNonEmpty(identifier) == identifier # <<>>

\* _validate_sql_identifier raises nothing
ValidIdentifier(identifier) ==
    identifier # <<>> /\ \A k \in DOMAIN identifier : IsWordOrSpace(identifier[k])

\* read_table: the frame, or the error raised
read_table(database, table_name) ==
    IF ~ValidIdentifier(table_name) THEN Raised(<<>>, "ValueError: identifier")
    ELSE IF ~HasTable(database, table_name) THEN Raised(<<>>, "ValueError: no such table")
    ELSE Returned(ReadFrame(TableNamed(database, table_name)))

RECURSIVE DoubledQuotes(_)
DoubledQuotes(identifier) ==
    IF identifier = <<>> THEN <<>>
    ELSE (IF Head(identifier) = "\"" THEN <<"\"", "\"">> ELSE <<Head(identifier)>>)
         \o DoubledQuotes(Tail(identifier))

\* _quote_identifier
quote_identifier(identifier) == <<"\"">> \o DoubledQuotes(identifier) \o <<"\"">>

DbOp(op, arg) == [op |-> op, arg |-> arg]

\* read_table: what it does to the database, in order: the connection, the
\* sqlite_master query for the name, the SELECT * FROM the quoted name
ReadTableOps(database, table_name) ==
    IF ~ValidIdentifier(table_name) THEN <<>>
    ELSE <<DbOp("connect", <<>>), DbOp("exists", table_name)>>
         \o (IF HasTable(database, table_name)
             THEN <<DbOp("select_all_from", quote_identifier(table_name))>>
             ELSE <<>>)

CallReadTable ==
    /\ call.fn = "read_table" /\ ~ret.done
    /\ ret' = [done |-> TRUE,
               val  |-> read_table(call.database, call.arg),
               ops  |-> ReadTableOps(call.database, call.arg)]
    /\ UNCHANGED <<call, convVars, mainVars>>

N_quoted    == <<"a", "\"", "b">>
N_injection == <<"x", ";", "-", "-">>
N_tabbed    == <<"a", "\t", "b">>

OneColumn(name) ==
    [name |-> name, cols |-> << [name |-> N_id, values |-> <<Small(1)>>] >>]

\* read_table called with names that are empty, plain, with a space, a tab,
\* a hyphen, a double quote or a semicolon, on databases with and without a
\* table of that name
ReadCalls ==
    { [fn |-> "read_table", arg |-> n, database |-> d] :
        n \in {<<>>, N_readings, N_events, <<"m","y"," ","t","a","b","l","e">>,
               <<"m","y","-","t","a","b","l","e">>, N_quoted, N_injection, N_tabbed},
        d \in {<<>>} \cup { <<OneColumn(m)>> :
                 m \in {N_readings, <<"m","y"," ","t","a","b","l","e">>,
                        <<"m","y","-","t","a","b","l","e">>, N_quoted,
                        N_injection, N_tabbed} } }

InitCalls ==
    /\ call \in TsCalls \cup ExpandCalls \cup RenameCalls \cup ReadCalls
    /\ ret = NotReturned
    /\ ConvIdle /\ MainIdle

NextCalls ==
    \/ CallIsUnixTimestampColumn \/ CallConvertTimestamps \/ CallRename
    \/ CallReadTable

SpecCalls == InitCalls /\ [][NextCalls]_vars

(***************************************************************************)
(* excel_writer.py: convert_db_to_excel, one action per statement group.   *)
(***************************************************************************)
\* table[:31] if len(table) > 31 else table
SheetName(table) ==
    IF Len(table) > EXCEL_MAX_SHEET_NAME_LENGTH
    THEN SubSeq(table, 1, EXCEL_MAX_SHEET_NAME_LENGTH) ELSE table

SheetIndex(sheets, name) ==
    IF \E k \in DOMAIN sheets : sheets[k].name = name
    THEN CHOOSE k \in DOMAIN sheets : sheets[k].name = name
    ELSE 0

\* writing a frame's cells onto a sheet: header in row 1, data from row 2;
\* cells the frame does not cover keep what they held
WriteCells(old, frame) ==
    [j \in 1..(IF Len(old) > Len(frame) THEN Len(old) ELSE Len(frame)) |->
        IF j > Len(frame) THEN old[j]
        ELSE [header |-> frame[j].name,
              cells  |-> IF j <= Len(old) /\ Len(old[j].cells) > Len(frame[j].values)
                         THEN frame[j].values
                              \o SubSeq(old[j].cells, Len(frame[j].values) + 1,
                                        Len(old[j].cells))
                         ELSE frame[j].values]]

\* df.to_excel(writer, sheet_name=..., index=False): a new sheet, or the
\* cells written onto the sheet of that name the writer already holds
to_excel(sheets, frame, name) ==
    LET k == SheetIndex(sheets, name) IN
    IF k = 0
    THEN Append(sheets, [name |-> name, cols |-> WriteCells(<<>>, frame),
                         formatted |-> FALSE])
    ELSE [sheets EXCEPT ![k].cols = WriteCells(@, frame)]

\* format_worksheet: styles, widths and the frozen header; no cell value changes
format_worksheet(sheets, name) ==
    [sheets EXCEPT ![SheetIndex(sheets, name)].formatted = TRUE]

Step(name) == log' = Append(log, <<name, t>>)

\* a mutation of PipelineOrder: timestamps expanded before the renaming
PipelineOrderSwapped ==
    <<"read", "timestamps", "rename", "row_numbers", "to_excel", "format">>

\* the statements of the loop body, in program order (lines 81-99)
PipelineOrder ==
    <<"read", "rename", "timestamps", "row_numbers", "to_excel", "format">>

\* the statement after statement `at` of the loop body
Following(at) ==
    PipelineOrder[(CHOOSE k \in DOMAIN PipelineOrder : PipelineOrder[k] = at) + 1]

\* a mutation of ExtensionAccepted: the extension check left out
ExtensionAcceptedAlways(suffix) == TRUE

\* lines 50-54: output_file.suffix.lower() against the Excel extension
ExtensionAccepted(suffix) == lower(suffix) = EXCEL_FILE_EXTENSION

Fail(e) == pc' = "failed" /\ err' = e

\* with sqlite3.connect(db_path) as conn: the with block commits or rolls
\* back when it is left and does not close the connection, and no function
\* calls conn.close(); the connection stays open until the runtime reclaims
\* the object
Connect(fn) == Append(conns, fn)

\* an exception inside the with block: ExcelWriter.__exit__ closes the writer,
\* which saves the workbook.  With sheets written the file holds them; with
\* none the save itself raises (a workbook needs a visible sheet).
FailInWith(e) ==
    /\ pc' = "failed"
    /\ IF writer.sheets = <<>>
       THEN /\ err' = "IndexError" /\ fs' = fs
            /\ writer' = [writer EXCEPT !.open = FALSE]
       ELSE /\ err' = e /\ fs' = [fs EXCEPT !.out_file = "partial"]
            /\ writer' = [writer EXCEPT !.open = FALSE, !.saves = @ + 1]

\* a mutation of DbPathError: the file type checked before the existence
DbPathErrorTypeFirst(path) ==
    IF path.text \in {"empty", "blank"} THEN "ValueError: db_path empty"
    ELSE IF ~path.is_file THEN "ValueError: not a file"
    ELSE IF ~path.exists THEN "FileNotFoundError"
    ELSE "none"

\* lines 27-37: the error of the first db_path check that fails; the check
\* of the extension (lines 40-41) only logs a warning
DbPathError(path) ==
    IF path.text \in {"empty", "blank"} THEN "ValueError: db_path empty"
    ELSE IF ~path.exists THEN "FileNotFoundError"
    ELSE IF ~path.is_file THEN "ValueError: not a file"
    ELSE "none"

\* lines 26-41
ValidateDbPath ==
    /\ pc = "start"
    /\ IF DbPathError(db_path) # "none" THEN Fail(DbPathError(db_path))
       ELSE pc' = "validate_output" /\ err' = err
    /\ Step("validate_db_path")
    /\ UNCHANGED <<db_path, output_path, db, tables, t, df, writer, fs, conns>>
    /\ UNCHANGED <<callVars, mainVars>>

\* lines 43-55
ValidateOutputPath ==
    /\ pc = "validate_output"
    /\ IF output_path.text \in {"empty", "blank"} THEN Fail("ValueError: output_path empty")
       ELSE IF ~ExtensionAccepted(output_path.suffix)
            THEN Fail("ValueError: extension")
       ELSE pc' = "mkdir" /\ err' = err
    /\ Step("validate_output_path")
    /\ UNCHANGED <<db_path, output_path, db, tables, t, df, writer, fs, conns>>
    /\ UNCHANGED <<callVars, mainVars>>

\* lines 57-65
MakeOutputDir ==
    /\ pc = "mkdir"
    /\ IF output_path.parent = "."
       THEN pc' = "list" /\ err' = err /\ fs' = fs
       ELSE IF output_path.parent = "denied" THEN Fail("PermissionError") /\ fs' = fs
       ELSE IF output_path.parent = "blocked" THEN Fail("OSError") /\ fs' = fs
       ELSE /\ pc' = "list" /\ err' = err
            /\ fs' = [fs EXCEPT !.dir_made = (output_path.parent = "missing")]
    /\ Step("mkdir")
    /\ UNCHANGED <<db_path, output_path, db, tables, t, df, writer, conns>>
    /\ UNCHANGED <<callVars, mainVars>>

\* lines 67-71
ListTables ==
    /\ pc = "list"
    /\ tables' = get_all_tables(db)
    /\ IF tables' = <<>> THEN Fail("ValueError: no tables")
       ELSE pc' = "open" /\ err' = err
    /\ Step("get_all_tables")
    /\ conns' = Connect("get_all_tables")
    /\ UNCHANGED <<db_path, output_path, db, t, df, writer, fs>>
    /\ UNCHANGED <<callVars, mainVars>>

\* line 78: pd.ExcelWriter opens the output file for writing
OpenWriter ==
    /\ pc = "open"
    /\ writer' = [open |-> TRUE, sheets |-> <<>>, saves |-> 0]
    /\ fs' = [fs EXCEPT !.out_file = "empty"]
    /\ t' = 1
    /\ pc' = "read"
    /\ Step("open_writer")
    /\ UNCHANGED <<db_path, output_path, db, err, tables, df, conns>>
    /\ UNCHANGED <<callVars, mainVars>>

\* line 81
ReadTable ==
    /\ pc = "read"
    /\ LET r == read_table(db, tables[t]) IN
       IF r.ok THEN /\ df' = r.df /\ pc' = Following("read")
                    /\ UNCHANGED <<err, writer, fs>>
       ELSE df' = df /\ FailInWith(r.err)
    /\ Step("read_table")
    /\ conns' = IF ValidIdentifier(tables[t]) THEN Connect("read_table") ELSE conns
    /\ UNCHANGED <<db_path, output_path, db, tables, t>>
    /\ UNCHANGED <<callVars, mainVars>>

\* line 84
RenameColumns ==
    /\ pc = "rename"
    /\ LET r == rename_data_format_columns(df, db) IN
       IF r.ok THEN /\ df' = r.df /\ pc' = Following("rename")
                    /\ UNCHANGED <<err, writer, fs>>
       ELSE df' = r.df /\ FailInWith(r.err)
    /\ Step("rename_data_format_columns")
    /\ conns' = Connect("rename_data_format_columns")
    /\ UNCHANGED <<db_path, output_path, db, tables, t>>
    /\ UNCHANGED <<callVars, mainVars>>

\* line 87
ConvertTimestamps ==
    /\ pc = "timestamps"
    /\ LET r == convert_timestamps_to_readable(df) IN
       IF r.ok THEN /\ df' = r.df /\ pc' = Following("timestamps")
                    /\ UNCHANGED <<err, writer, fs>>
       ELSE df' = r.df /\ FailInWith(r.err)
    /\ Step("convert_timestamps_to_readable")
    /\ UNCHANGED <<db_path, output_path, db, tables, t, conns>>
    /\ UNCHANGED <<callVars, mainVars>>

\* line 90
AddRowNumbers ==
    /\ pc = "row_numbers"
    /\ LET r == add_row_numbers(df) IN
       IF r.ok THEN /\ df' = r.df /\ pc' = Following("row_numbers")
                    /\ UNCHANGED <<err, writer, fs>>
       ELSE df' = r.df /\ FailInWith(r.err)
    /\ Step("add_row_numbers")
    /\ UNCHANGED <<db_path, output_path, db, tables, t, conns>>
    /\ UNCHANGED <<callVars, mainVars>>

\* lines 94-95
WriteSheet ==
    /\ pc = "to_excel"
    /\ writer' = [writer EXCEPT !.sheets = to_excel(@, df, SheetName(tables[t]))]
    /\ pc' = Following("to_excel")
    /\ Step("to_excel")
    /\ UNCHANGED <<db_path, output_path, db, err, tables, t, df, fs, conns>>
    /\ UNCHANGED <<callVars, mainVars>>

\* lines 98-99, and the loop's next turn
FormatSheet ==
    /\ pc = "format"
    /\ writer' = [writer EXCEPT !.sheets = format_worksheet(@, SheetName(tables[t]))]
    /\ IF t < Len(tables) THEN t' = t + 1 /\ pc' = "read"
       ELSE t' = t /\ pc' = "close"
    /\ Step("format_worksheet")
    /\ UNCHANGED <<db_path, output_path, db, err, tables, df, fs, conns>>
    /\ UNCHANGED <<callVars, mainVars>>

\* the end of the with block: the workbook is saved and closed
CloseWriter ==
    /\ pc = "close"
    /\ writer' = [writer EXCEPT !.open = FALSE, !.saves = @ + 1]
    /\ fs' = [fs EXCEPT !.out_file = "complete"]
    /\ pc' = "done"
    /\ Step("close_writer")
    /\ UNCHANGED <<db_path, output_path, db, err, tables, t, df, conns>>
    /\ UNCHANGED <<callVars, mainVars>>

\* one table through the loop body up to the frame that is written
TablePipeline(database, table_name) ==
    LET r1 == read_table(database, table_name) IN
    IF ~r1.ok THEN r1 ELSE
    LET r2 == rename_data_format_columns(r1.df, database) IN
    IF ~r2.ok THEN r2 ELSE
    LET r3 == convert_timestamps_to_readable(r2.df) IN
    IF ~r3.ok THEN r3 ELSE add_row_numbers(r3.df)

\* convert_db_to_excel on arguments that pass validation returns normally
ConversionCompletes(database) ==
    /\ get_all_tables(database) # <<>>
    /\ \A k \in DOMAIN get_all_tables(database) :
          TablePipeline(database, get_all_tables(database)[k]).ok

NextConvert ==
    \/ ValidateDbPath \/ ValidateOutputPath \/ MakeOutputDir \/ ListTables
    \/ OpenWriter \/ ReadTable \/ RenameColumns \/ ConvertTimestamps
    \/ AddRowNumbers \/ WriteSheet \/ FormatSheet \/ CloseWriter

(***************************************************************************)
(* Inputs of convert_db_to_excel.                                          *)
(***************************************************************************)
DbPaths ==
    { [text |-> "empty", exists |-> FALSE, is_file |-> FALSE, suffix |-> <<>>],
      [text |-> "blank", exists |-> FALSE, is_file |-> FALSE, suffix |-> <<>>],
      [text |-> "path",  exists |-> FALSE, is_file |-> FALSE, suffix |-> DB_FILE_EXTENSION],
      [text |-> "path",  exists |-> TRUE,  is_file |-> FALSE, suffix |-> <<>>],
      [text |-> "path",  exists |-> TRUE,  is_file |-> TRUE,  suffix |-> DB_FILE_EXTENSION],
      [text |-> "path",  exists |-> TRUE,  is_file |-> TRUE,
       suffix |-> <<".","s","q","l","i","t","e">>] }

\* parent: "." (no directory part), a directory that exists, one that is
\* missing and can be made, one that may not be made, one that cannot be
OutputPaths ==
    { [text |-> "empty", suffix |-> <<>>, parent |-> "."],
      [text |-> "blank", suffix |-> <<>>, parent |-> "."] }
    \cup { [text |-> "path", suffix |-> x, parent |-> d] :
             x \in {EXCEL_FILE_EXTENSION, <<".","X","L","S","X">>,
                    <<".","x","l","s">>, <<>>},
             d \in {".", "exists", "missing", "denied", "blocked"} }

GoodDbPath     == [text |-> "path", exists |-> TRUE, is_file |-> TRUE,
                   suffix |-> DB_FILE_EXTENSION]
GoodOutputPath == [text |-> "path", suffix |-> EXCEL_FILE_EXTENSION, parent |-> "missing"]

DistinctNames(d) == \A a, b \in DOMAIN d : a # b => d[a].name # d[b].name

N_my_table        == <<"m","y","-","t","a","b","l","e">>
N_sqlite_sequence == SQLITE \o <<"_","s","e","q","u","e","n","c","e">>

PlainTables ==
    { [name |-> N_readings,
       cols |-> << [name |-> N_id,   values |-> <<Small(7), Small(8)>>],
                   [name |-> N_Time, values |-> <<AtMin, AtMax>>] >>],
      [name |-> N_events,
       cols |-> << [name |-> DF0, values |-> <<Text(<<"a">>)>>] >>],
      [name |-> N_my_table,
       cols |-> << [name |-> N_id, values |-> <<>>] >>],
      [name |-> N_sqlite_sequence,
       cols |-> << [name |-> N_id, values |-> <<Small(1)>>] >>],
      LookupTable(<< <<Small(0), Text(N_Voltage)>> >>) }

\* the databases of the conversions checked for their control flow
PlainDBs ==
    UNION { {d \in [1..n -> PlainTables] : DistinctNames(d)} : n \in 0..MaxTables }

TsValues(r)   == [k \in 1..r |-> Num(10957 + k, k)]
TextValues(r) == [k \in 1..r |-> Text(<<DigitChars[k + 1]>>)]

\* the tables named tname with up to MaxCols columns named from `names`,
\* each column all timestamps or all text, and up to MaxRows rows
DataTables(tname, names) ==
    UNION { UNION { { [name |-> tname,
                       cols |-> [k \in 1..c |->
                                   [name   |-> ns[k],
                                    values |-> IF ps[k] = "ts" THEN TsValues(r)
                                               ELSE TextValues(r)]]] :
                        ps \in [1..c -> {"ts", "text"}] } :
                    ns \in {f \in [1..c -> names] :
                               \A a, b \in 1..c : a # b => f[a] # f[b]} } :
            <<c, r>> \in (1..MaxCols) \X (0..MaxRows) }

DataColumnNames == {N_id, N_Time, DF0, ROW_NUMBER_COLUMN_NAME}

DataLookups ==
    { LookupTable(<< <<Small(0), Text(n)>> >>) :
        n \in {N_Voltage, N_id, N_Time, ROW_NUMBER_COLUMN_NAME} }
    \cup {MalformedLookup}

\* further tables of a database, up to MaxTables in all
Fillers(n) ==
    [k \in 1..n |-> [name |-> <<"t">> \o Digits(k + 1),
                     cols |-> << [name |-> N_id, values |-> <<Small(7)>>] >>]]

\* the databases of the conversions checked for their data: a table t1 of
\* any of the shapes above, alone, or before or after a lookup table, or
\* before further tables
DataDBs ==
    UNION { { <<tb>> } \cup { <<tb, l>> : l \in DataLookups }
                       \cup { <<l, tb>> : l \in DataLookups }
                       \cup { <<tb>> \o Fillers(n) : n \in 1..(MaxTables - 1) } :
            tb \in DataTables(<<"t","1">>, DataColumnNames) }

InitConvert(dbPaths, outputPaths, dbs) ==
    /\ db_path \in dbPaths
    /\ output_path \in outputPaths
    /\ db \in dbs
    /\ pc = "start" /\ err = "none" /\ tables = <<>> /\ t = 0 /\ df = <<>>
    /\ writer = [open |-> FALSE, sheets |-> <<>>, saves |-> 0]
    /\ fs = [dir_made |-> FALSE, out_file |-> "absent"]
    /\ log = <<>> /\ conns = <<>>
    /\ CallsIdle /\ MainIdle

Init == InitConvert(DbPaths, OutputPaths, PlainDBs)

Next == NextConvert

Spec == Init /\ [][Next]_vars

InitData == InitConvert({GoodDbPath}, {GoodOutputPath}, DataDBs)

SpecData == InitData /\ [][NextConvert]_vars

(***************************************************************************)
(* Inputs of convert_db_to_excel: table names.                             *)
(***************************************************************************)
\* a name of EXCEL_MAX_SHEET_NAME_LENGTH letters
N_31 == [k \in 1..EXCEL_MAX_SHEET_NAME_LENGTH |-> "x"]

N_my_space_table == <<"m","y"," ","t","a","b","l","e">>
N_sqlitebook     == SQLITE \o <<"b","o","o","k">>

\* the names of the tables: short, of the longest sheet name, longer with a
\* common beginning, with a space, with a hyphen, and two that the pattern
\* 'sqlite_%' matches
TableNames ==
    { N_readings, N_31, N_31 \o <<"a">>, N_31 \o <<"b">>, N_my_space_table,
      N_my_table, N_sqlite_sequence, N_sqlitebook }

\* a table of one column and as many rows as `rows`
NamedTable(name, rows) ==
    [name |-> name,
     cols |-> << [name |-> N_id, values |-> [k \in 1..rows |-> Small(k)]] >>]

\* the databases of up to MaxTables tables with these names; the k-th table
\* has k - 1 rows
NameDBs ==
    UNION { { [k \in 1..n |-> NamedTable(ns[k], k - 1)] :
                ns \in {f \in [1..n -> TableNames] :
                           \A a, b \in 1..n : a # b => f[a] # f[b]} } :
            n \in 0..MaxTables }

InitNames == InitConvert({GoodDbPath}, {GoodOutputPath}, NameDBs)

\* convert_db_to_excel on databases that differ in their table names
SpecNames == InitNames /\ [][NextConvert]_vars

\* the runtime closes a connection that nothing refers to any more: when
\* the function that opened it returns under reference counting, at a later
\* collection otherwise, or not before the conversion has ended
Reclaim ==
    /\ pc # "unused" /\ conns # <<>>
    /\ \E k \in DOMAIN conns :
          conns' = [j \in 1..(Len(conns) - 1) |->
                      IF j < k THEN conns[j] ELSE conns[j + 1]]
    /\ UNCHANGED <<db_path, output_path, db, pc, err, tables, t, df, writer, fs, log>>
    /\ UNCHANGED <<callVars, mainVars>>

InitConn == InitConvert({GoodDbPath}, {GoodOutputPath}, PlainDBs)

NextConn == NextConvert \/ Reclaim

\* convert_db_to_excel together with the reclaiming of its connections
SpecConn == InitConn /\ [][NextConn]_vars

(***************************************************************************)
(* main.py: the batch driver.  The directory holds entries                 *)
(* [stem, suffix, is_file, db]; the logging calls change no state of the   *)
(* driver and are taken not to raise.                                      *)
(***************************************************************************)
INVALID_FILENAME_CHARS == {"<", ">", ":", "\"", "|", "?", "*"}

FoundFiles(found) == [ok |-> TRUE, err |-> "none", files |-> found]
NotFound(e)       == [ok |-> FALSE, err |-> e, files |-> <<>>]

\* find_all_db_files: the entries matching *.db in listing order, or the
\* error raised
find_all_db_files(dir) ==
    IF ~dir.exists THEN NotFound("FileNotFoundError")
    ELSE IF ~dir.is_dir THEN NotFound("ValueError")
    ELSE LET db_files == SelectSeq(dir.entries,
                                   LAMBDA e : e.suffix = DB_FILE_EXTENSION)
         IN IF db_files = <<>> THEN NotFound("FileNotFoundError")
            ELSE FoundFiles(db_files)

\* get_output_path: the stem with the invalid characters replaced, with the
\* Excel extension, under the output directory.  A discovered path is not
\* empty and has a stem, so nothing is raised.
get_output_path(entry, dir_exists) ==
    [text   |-> "path",
     stem   |-> [k \in DOMAIN entry.stem |->
                   IF entry.stem[k] \in INVALID_FILENAME_CHARS
                   THEN "_" ELSE entry.stem[k]],
     suffix |-> EXCEL_FILE_EXTENSION,
     parent |-> IF dir_exists THEN "exists" ELSE "missing"]

\* a mutation of ExitStatus: the error count ignored
ExitStatusAlwaysZero(errors) == 0

\* line 89
ExitStatus(errors) == IF errors > 0 THEN 1 ELSE 0

\* a mutation of AfterError: the first failure ends the loop
AfterErrorBreak(k, n) == n + 1

\* line 74: continue with the next file
AfterError(k, n) == k + 1

\* lines 27-39, and the handlers of lines 91-99 when discovery raises
MainDiscover ==
    /\ mpc = "discover"
    /\ LET r == find_all_db_files(input_dir) IN
       IF r.ok
       THEN /\ files' = r.files /\ i' = 1 /\ mpc' = "loop" /\ status' = status
       ELSE /\ files' = files /\ i' = i /\ mpc' = "returned" /\ status' = 1
    /\ success_count' = 0 /\ error_count' = 0
    /\ UNCHANGED <<input_dir, attempts, outputs>>
    /\ UNCHANGED <<callVars, convVars>>

\* lines 41-57: the next file's output path, and convert_db_to_excel entered
MainBeginFile ==
    /\ mpc = "loop" /\ i <= Len(files)
    /\ attempts' = Append(attempts, i)
    /\ db_path' = [text |-> "path", exists |-> TRUE, is_file |-> files[i].is_file,
                   suffix |-> files[i].suffix]
    /\ output_path' = get_output_path(files[i], outputs.dir)
    /\ db' = files[i].db
    /\ pc' = "start" /\ err' = "none" /\ tables' = <<>> /\ t' = 0 /\ df' = <<>>
    /\ writer' = [open |-> FALSE, sheets |-> <<>>, saves |-> 0]
    /\ fs' = [dir_made |-> FALSE,
              out_file |-> IF output_path'.stem \in DOMAIN outputs.files
                           THEN outputs.files[output_path'.stem] ELSE "absent"]
    /\ log' = <<>>
    /\ conns' = conns
    /\ mpc' = "converting"
    /\ UNCHANGED <<input_dir, files, i, success_count, error_count, outputs, status>>
    /\ UNCHANGED callVars

\* what the conversion that just ended left in the output directory
OutputsAfter ==
    [dir   |-> outputs.dir \/ fs.dir_made,
     files |-> IF fs.out_file = "absent" THEN outputs.files
               ELSE (output_path.stem :> fs.out_file) @@ outputs.files]

\* lines 59-69: convert_db_to_excel returned
MainFileSucceeded ==
    /\ mpc = "converting" /\ pc = "done"
    /\ success_count' = success_count + 1
    /\ i' = i + 1
    /\ outputs' = OutputsAfter
    /\ mpc' = "loop"
    /\ UNCHANGED <<input_dir, files, error_count, attempts, status>>
    /\ UNCHANGED <<callVars, convVars>>

\* lines 71-74: convert_db_to_excel raised
MainFileFailed ==
    /\ mpc = "converting" /\ pc = "failed"
    /\ error_count' = error_count + 1
    /\ i' = AfterError(i, Len(files))
    /\ outputs' = OutputsAfter
    /\ mpc' = "loop"
    /\ UNCHANGED <<input_dir, files, success_count, attempts, status>>
    /\ UNCHANGED <<callVars, convVars>>

\* lines 76-89
MainReturn ==
    /\ mpc = "loop" /\ i > Len(files)
    /\ status' = ExitStatus(error_count)
    /\ mpc' = "returned"
    /\ UNCHANGED <<input_dir, files, i, success_count, error_count, attempts, outputs>>
    /\ UNCHANGED <<callVars, convVars>>

(***************************************************************************)
(* Inputs of main: the input directory.                                    *)
(***************************************************************************)
RowTable ==
    [name |-> <<"t","2">>,
     cols |-> << [name |-> ROW_NUMBER_COLUMN_NAME, values |-> <<Small(5)>>] >>]

ReadingsTable ==
    [name |-> N_readings,
     cols |-> << [name |-> N_id,   values |-> <<Small(7), Small(8)>>],
                 [name |-> N_Time, values |-> <<AtMin, AtMax>>] >>]

Entry(stem, suffix, is_file, database) ==
    [stem |-> stem, suffix |-> suffix, is_file |-> is_file, db |-> database]

\* a.db converts; "b<.db" has no table; "b>.db" converts, onto the output
\* path of "b<.db"; c.db fails at its second table; d.db is a directory;
\* notes.txt is no database file
DirEntries ==
    { Entry(<<"a">>, DB_FILE_EXTENSION, TRUE, <<ReadingsTable>>),
      Entry(<<"b","<">>, DB_FILE_EXTENSION, TRUE, <<>>),
      Entry(<<"b",">">>, DB_FILE_EXTENSION, TRUE, <<ReadingsTable>>),
      Entry(<<"c">>, DB_FILE_EXTENSION, TRUE, <<ReadingsTable, RowTable>>),
      Entry(<<"d">>, DB_FILE_EXTENSION, FALSE, <<>>),
      Entry(<<"n","o","t","e","s">>, <<".","t","x","t">>, TRUE, <<>>) }

\* the listings of up to MaxFiles distinct entries, in any order
Listings ==
    UNION { {l \in [1..n -> DirEntries] : \A a, b \in 1..n : a # b => l[a] # l[b]} :
            n \in 0..MaxFiles }

InputDirs ==
    { [exists |-> FALSE, is_dir |-> FALSE, entries |-> <<>>],
      [exists |-> TRUE,  is_dir |-> FALSE, entries |-> <<>>] }
    \cup { [exists |-> TRUE, is_dir |-> TRUE, entries |-> l] : l \in Listings }

InitBatch ==
    /\ input_dir \in InputDirs
    /\ files = <<>> /\ mpc = "discover" /\ i = 0
    /\ success_count = 0 /\ error_count = 0
    /\ attempts = <<>> /\ outputs = [dir |-> FALSE, files |-> <<>>]
    /\ status = "running"
    /\ ConvIdle /\ CallsIdle

NextBatch ==
    \/ MainDiscover \/ MainBeginFile \/ MainFileSucceeded \/ MainFileFailed
    \/ MainReturn \/ NextConvert

SpecBatch == InitBatch /\ [][NextBatch]_vars

(***************************************************************************)
(*                              The claims                                 *)
(***************************************************************************)
IsTsCall     == call.fn = "is_unix_timestamp_column" /\ ret.done
IsExpandCall == call.fn = "convert_timestamps_to_readable" /\ ret.done
IsRenameCall == call.fn = "rename_data_format_columns" /\ ret.done

C3_NameHasKeyword(name) ==
    LET l == lower(name) IN
    \/ Contains(l, <<"t","i","m","e">>)
    \/ Contains(l, <<"t","i","m","e","s","t","a","m","p">>)
    \/ Contains(l, <<"d","a","t","e">>)

\* 946684800 <= c <= 4102444800, on the pair [d, s]
C3_InRange(c) ==
    /\ c.k = "int"
    /\ (c.d > 10957 \/ (c.d = 10957 /\ c.s >= 0))
    /\ (c.d < 47482 \/ (c.d = 47482 /\ c.s = 0))

\* C3: is_unix_timestamp_column returns true exactly when the lower-cased
\* column name contains "time", "timestamp" or "date", the column has a
\* non-null value, and every non-null value is a number within
\* [946684800, 4102444800], both bounds included.
C3_TimestampGates ==
    IsTsCall =>
        LET vs == call.arg.values IN
        ret.val.bool =
            ( /\ C3_NameHasKeyword(call.arg.name)
              /\ \E k \in DOMAIN vs : ~IsNull(vs[k])
              /\ \A k \in DOMAIN vs : ~IsNull(vs[k]) => C3_InRange(vs[k]) )

\* a column named Time holding both bounds and a NULL qualifies
C3_Witness ==
    /\ IsTsCall /\ ret.val.bool
    /\ call.arg.name = N_Time
    /\ \E a, b \in DOMAIN call.arg.values :
          call.arg.values[a] = AtMax /\ IsNull(call.arg.values[b])

\* where column k of the input lands: one place further right for each
\* qualifying column before it
C4_Place(in, k) ==
    k + Cardinality({q \in 1..(k - 1) : is_unix_timestamp_column(in[q])})

\* C4: when convert_timestamps_to_readable returns, every qualifying column
\* c is directly followed by c_readable, no other column is added, and the
\* original columns keep their relative order.
C4_ReadableAdjacent ==
    (IsExpandCall /\ ret.val.ok) =>
        LET in  == call.arg
            out == ret.val.df
            q   == {k \in DOMAIN in : is_unix_timestamp_column(in[k])}
        IN /\ Len(out) = Len(in) + Cardinality(q)
           /\ \A k \in DOMAIN in : out[C4_Place(in, k)] = in[k]
           /\ \A k \in q :
                 out[C4_Place(in, k) + 1].name
                     = in[k].name \o <<"_","r","e","a","d","a","b","l","e">>

\* two adjacent qualifying columns, the second being the last column
C4_Witness ==
    /\ IsExpandCall /\ ret.val.ok
    /\ Len(call.arg) = 2 /\ Len(ret.val.df) = 4
    /\ call.arg[1].name = N_Time /\ call.arg[2].name = N_updated

C5_Column(n) == <<"d","a","t","a","_","f","o","r","m","a","t","_">> \o <<DigitChars[n + 1]>>

\* the lookup rows, when the database has a data_format table with both columns
C5_LookupRows(database) ==
    IF /\ Len(database) = 1
       /\ Len(database[1].cols) = 2
    THEN [r \in DOMAIN database[1].cols[1].values |->
             [index   |-> database[1].cols[1].values[r].s,
              comment |-> database[1].cols[2].values[r]]]
    ELSE <<>>

\* C5: rename_data_format_columns raises nothing, keeps every column in its
\* place with its values, and renames data_format_N to the comment of the
\* (last) lookup row with index N exactly when the lookup table has such a
\* row; with no lookup table every name is unchanged.
C5_RenameByLookup ==
    IsRenameCall =>
        LET in   == call.arg
            out  == ret.val.df
            rows == C5_LookupRows(call.database)
        IN /\ ret.val.ok
           /\ Len(out) = Len(in)
           /\ \A k \in DOMAIN in :
                 /\ out[k].values = in[k].values
                 /\ LET hit == {r \in DOMAIN rows :
                                   in[k].name = C5_Column(rows[r].index)} IN
                    IF hit = {} THEN out[k].name = in[k].name
                    ELSE LET last == CHOOSE r \in hit : \A o \in hit : o <= r IN
                         out[k].name = (IF rows[last].comment.k = "text"
                                        THEN rows[last].comment.v ELSE None)

\* data_format_0 is renamed, data_format_1 (no row with index 1) is not
C5_Witness ==
    /\ IsRenameCall
    /\ Names(call.arg) = <<DF0, DF1>>
    /\ Names(ret.val.df) = <<N_Voltage, DF1>>

\* the lookup table is absent and the data_format columns keep their names
C5_WitnessAbsent ==
    /\ IsRenameCall /\ call.database = <<>>
    /\ Names(ret.val.df) = <<DF0, DF1>>

(***************************************************************************)
(* Claims about convert_db_to_excel.                                       *)
(***************************************************************************)
\* table k's turn of the loop has ended, normally or by an exception
TurnEnded(k) == k < t \/ (k = t /\ pc \in {"close", "done", "failed"})

\* table k's worksheet has been written
SheetWritten(k) == k < t \/ (k = t /\ pc \in {"format", "close", "done"})

SourceOf(k) == TableNamed(db, tables[k])

SheetOf(k) == writer.sheets[SheetIndex(writer.sheets, SheetName(tables[k]))]

RECURSIVE C1_Interleave(_, _)
C1_Interleave(frame, k) ==
    IF k > Len(frame) THEN <<>>
    ELSE <<frame[k].name>>
         \o (IF is_unix_timestamp_column(frame[k])
             THEN <<frame[k].name \o <<"_","r","e","a","d","a","b","l","e">> >>
             ELSE <<>>)
         \o C1_Interleave(frame, k + 1)

\* "Row", then the source columns in order, renamed where the lookup
\* matches, each qualifying column followed by its readable column
C1_ExpectedHeader(table) ==
    << <<"R","o","w">> >> \o C1_Interleave(rename_data_format_columns(ReadFrame(table), db).df, 1)

C1_SheetRight(k) ==
    /\ SheetIndex(writer.sheets, SheetName(tables[k])) # 0
    /\ LET cols == SheetOf(k).cols
           src  == SourceOf(k).cols
       IN /\ [j \in DOMAIN cols |-> cols[j].header] = C1_ExpectedHeader(SourceOf(k))
          /\ \A j \in DOMAIN cols : Len(cols[j].cells) = Len(src[1].values)
          /\ \A q \in DOMAIN src : \E j \in DOMAIN cols : cols[j].cells = src[q].values

\* C1: every source table that convert_db_to_excel processes ends as a
\* worksheet with as many data rows as the table, in source order, under the
\* header "Row", source columns (renamed where the lookup matches), each
\* readable column after its source column, whatever the columns are named.
C1_EveryTableWritten ==
    \A k \in DOMAIN tables : TurnEnded(k) => C1_SheetRight(k)

RECURSIVE CountIn(_, _)
CountIn(seq, x) ==
    IF seq = <<>> THEN 0
    ELSE (IF Head(seq) = x THEN 1 ELSE 0) + CountIn(Tail(seq), x)

RECURSIVE C2_LoopSteps(_, _)
C2_LoopSteps(k, n) ==
    IF k > n THEN <<>>
    ELSE << <<"read_table", k>>, <<"rename_data_format_columns", k>>,
            <<"convert_timestamps_to_readable", k>>, <<"add_row_numbers", k>>,
            <<"to_excel", k>>, <<"format_worksheet", k>> >>
         \o C2_LoopSteps(k + 1, n)

C2_Steps(n) ==
    << <<"validate_db_path", 0>>, <<"validate_output_path", 0>>, <<"mkdir", 0>>,
       <<"get_all_tables", 0>>, <<"open_writer", 0>> >>
    \o C2_LoopSteps(1, n) \o << <<"close_writer", n>> >>

\* C2: the steps run per table in the order read, rename, timestamp-expand,
\* row-number, write, format, one table wholly before the next is read; the
\* renaming sees the table's original column names and a written sheet has
\* the row-number column before the renamed and expanded columns.
C2_FixedOrder ==
    /\ log = SubSeq(C2_Steps(Len(tables)), 1, Len(log))
    /\ pc = "rename" => Names(df) = [q \in DOMAIN SourceOf(t).cols |-> SourceOf(t).cols[q].name]
    /\ \A k \in DOMAIN tables : SheetWritten(k) =>
          [j \in DOMAIN SheetOf(k).cols |-> SheetOf(k).cols[j].header]
              = C1_ExpectedHeader(SourceOf(k))

\* two tables were converted, the second after the first was formatted
C2_Witness ==
    /\ pc = "done" /\ Len(tables) = 2
    /\ log[11] = <<"format_worksheet", 1>> /\ log[12] = <<"read_table", 2>>
    /\ \E k \in DOMAIN tables :
          SheetOf(k).cols[2].header = N_Voltage /\ SourceOf(k).cols[1].name = DF0

\* the loop body with the renaming left out
C6_PipelineUnrenamed(table_name) ==
    LET r1 == read_table(db, table_name) IN
    IF ~r1.ok THEN r1 ELSE
    LET r3 == convert_timestamps_to_readable(r1.df) IN
    IF ~r3.ok THEN r3 ELSE add_row_numbers(r3.df)

\* C6: renaming never fails the conversion, whatever the lookup table
\* holds: a conversion that fails would have failed with the columns left
\* unrenamed as well.
C6_RenameNeverFailsConversion ==
    pc = "failed" =>
        \E k \in DOMAIN tables : ~C6_PipelineUnrenamed(tables[k]).ok

\* C7: once a table's frame has its row numbers, and so on every worksheet
\* written, the leftmost column is "Row" holding 1..N for the table's N
\* rows, every column has N cells, the source columns hold the source
\* values in source order, and add_row_numbers ran once for the table.
C7_RowNumbers ==
    /\ pc = "to_excel" =>
          /\ df[1].name = <<"R","o","w">>
          /\ df[1].values = [r \in 1..Len(SourceOf(t).cols[1].values) |-> Small(r)]
    /\ \A k \in DOMAIN tables : SheetWritten(k) =>
          LET cols == SheetOf(k).cols
              src  == SourceOf(k).cols
              n    == Len(src[1].values)
          IN /\ cols[1].header = <<"R","o","w">>
             /\ cols[1].cells = [r \in 1..n |-> Small(r)]
             /\ \A j \in DOMAIN cols : Len(cols[j].cells) = n
             /\ \A q \in DOMAIN src : \E j \in DOMAIN cols : cols[j].cells = src[q].values
             /\ CountIn(log, <<"add_row_numbers", k>>) = 1
    /\ \A k \in DOMAIN tables : CountIn(log, <<"add_row_numbers", k>>) <= 1

\* a table of two rows whose data_format_0 column was renamed to Time and
\* then expanded: Row, Time, Time_readable with row numbers 1, 2
C7_Witness ==
    /\ pc = "done"
    /\ \E k \in DOMAIN tables :
          /\ SourceOf(k).cols[1].name = DF0
          /\ Len(SheetOf(k).cols) = 3
          /\ SheetOf(k).cols[2].header = N_Time
          /\ SheetOf(k).cols[3].header = N_Time_readable
          /\ SheetOf(k).cols[1].cells = <<Small(1), Small(2)>>

C8_WrongExtension == lower(output_path.suffix) # <<".","x","l","s","x">>

\* C8: an output path whose extension is not .xlsx (compared without regard
\* to case) is rejected: no directory is made, the tables are not listed, no
\* table is read, the output file is not opened, and when the call gets as
\* far as the output path it ends there with a ValueError.
C8_ExtensionRejectedFirst ==
    C8_WrongExtension =>
        /\ ~fs.dir_made /\ fs.out_file = "absent" /\ tables = <<>>
        /\ pc \in {"start", "validate_output", "failed"}
        /\ \A k \in DOMAIN log :
              log[k][1] \in {"validate_db_path", "validate_output_path"}
        /\ Len(log) = 2 =>
              /\ pc = "failed"
              /\ err \in {"ValueError: extension", "ValueError: output_path empty"}

\* a path ending in .xls under a directory still to be made was refused
C8_Witness ==
    /\ output_path.suffix = <<".","x","l","s">> /\ output_path.parent = "missing"
    /\ pc = "failed" /\ err = "ValueError: extension" /\ ~fs.dir_made

(***************************************************************************)
(* Claims about main.                                                      *)
(***************************************************************************)
\* the directory entries that discovery is to find
Discovered ==
    IF input_dir.exists /\ input_dir.is_dir
    THEN SelectSeq(input_dir.entries, LAMBDA e : e.suffix = <<".","d","b">>)
    ELSE <<>>

\* C9: main attempts the discovered files one at a time in discovery order,
\* each once: the attempts are always the first files of the discovery, a
\* conversion starts only when every earlier one has ended as a success or
\* an error, and when the loop has ended every discovered file was attempted
\* and success_count + error_count is their number.
C9_EveryFileAttemptedOnce ==
    /\ mpc # "discover" => files = Discovered
    /\ attempts = [k \in 1..Len(attempts) |-> k]
    /\ Len(attempts) <= Len(files)
    /\ mpc = "converting" =>
          Len(attempts) = i /\ success_count + error_count = i - 1
    /\ mpc = "loop" => success_count + error_count = Len(attempts)
    /\ (mpc = "returned" /\ Discovered # <<>>) =>
          /\ Len(attempts) = Len(files)
          /\ success_count + error_count = Len(files)

\* three files were found; the first and the second failed, the third was
\* still converted
C9_Witness ==
    /\ mpc = "returned" /\ Len(files) = 3
    /\ ~ConversionCompletes(files[1].db) /\ ~files[2].is_file
    /\ attempts = <<1, 2, 3>>
    /\ error_count = 2 /\ success_count = 1

\* convert_db_to_excel returns normally for this discovered file
C10_Converts(entry) == entry.is_file /\ ConversionCompletes(entry.db)

\* C10: main returns 0 exactly when discovery found a file and every found
\* file's conversion succeeds, and 1 otherwise; when discovery finds no file
\* no conversion is attempted and no output file is produced.
C10_ExitStatus ==
    mpc = "returned" =>
        /\ status \in {0, 1}
        /\ status = 0 <=>
              /\ Discovered # <<>>
              /\ \A k \in DOMAIN Discovered : C10_Converts(Discovered[k])
        /\ Discovered = <<>> =>
              /\ status = 1 /\ attempts = <<>>
              /\ outputs.files = <<>> /\ ~outputs.dir
              /\ pc = "unused"

\* two files converted and main returned 0
C10_Witness ==
    /\ mpc = "returned" /\ status = 0 /\ Len(files) = 2
    /\ success_count = 2 /\ DOMAIN outputs.files = {<<"a">>, <<"b","_">>}

\* a directory without a database file: status 1 and nothing attempted
C10_WitnessNotFound ==
    /\ mpc = "returned" /\ status = 1
    /\ input_dir.is_dir /\ Len(input_dir.entries) = 1 /\ files = <<>>
    /\ attempts = <<>>

\* one of two files failed and main returned 1
C10_WitnessFailed ==
    /\ mpc = "returned" /\ status = 1 /\ success_count = 1 /\ error_count = 1

(***************************************************************************)
(* Claims about resources, failure and naming.                             *)
(***************************************************************************)
\* C11: during a conversion at most one database connection is open at any
\* moment and the one workbook writer; when convert_db_to_excel has ended,
\* by returning or by raising, every connection it opened and the writer
\* are closed.
C11_ResourcesReleased ==
    /\ Len(conns) <= 1
    /\ pc \in {"done", "failed"} => conns = <<>> /\ ~writer.open

\* C12: the workbook is saved and closed exactly once, and when a step of
\* some table raises, the error reaches the caller and no workbook holding
\* only the earlier tables is left as the output file.
C12_AllOrNothing ==
    /\ writer.saves <= 1
    /\ pc = "done" => writer.saves = 1 /\ fs.out_file = "complete"
    /\ pc = "failed" => fs.out_file # "partial"

\* C13: after a successful conversion the workbook has one worksheet per
\* table that get_all_tables listed, in that order, each named by the first
\* 31 characters of the table's name, also when names share that beginning.
C13_OneSheetPerTable ==
    pc = "done" =>
        /\ Len(writer.sheets) = Len(tables)
        /\ \A k \in DOMAIN tables : writer.sheets[k].name = SheetName(tables[k])

IsReadCall == call.fn = "read_table" /\ ret.done

C14_SafeChar(c) ==
    \/ \E k \in 1..26 : UpperChars[k] = c \/ LowerChars[k] = c
    \/ c \in {"0","1","2","3","4","5","6","7","8","9"}
    \/ c \in {"_", " ", "\t", "\n"}

\* C14: read_table raises a validation error, with no connection opened,
\* for a name that is empty or has a character other than letters, digits,
\* underscore and whitespace; for a valid name the schema lacks it raises a
\* not-found error with no SELECT * executed; otherwise it queries the name
\* between double quotes, and it never queries any other name.
C14_ReadTableGuards ==
    IsReadCall =>
        LET name    == call.arg
            safe    == name # <<>> /\ \A k \in DOMAIN name : C14_SafeChar(name[k])
            present == \E k \in DOMAIN call.database : call.database[k].name = name
            ops     == ret.ops
        IN /\ ~safe => /\ ~ret.val.ok /\ ret.val.err = "ValueError: identifier"
                       /\ ops = <<>>
           /\ (safe /\ ~present) =>
                  /\ ~ret.val.ok /\ ret.val.err = "ValueError: no such table"
                  /\ Len(ops) = 2 /\ ops[1].op = "connect" /\ ops[2].op = "exists"
           /\ (safe /\ present) =>
                  /\ ret.val.ok
                  /\ Len(ops) = 3 /\ ops[1].op = "connect" /\ ops[2].op = "exists"
                  /\ ops[3] = [op |-> "select_all_from",
                               arg |-> <<"\"">> \o name \o <<"\"">>]
           /\ \A k \in DOMAIN ops : ops[k].op = "select_all_from" => safe /\ present

\* the table "my table" was read through the query of its quoted name
C14_Witness ==
    /\ IsReadCall /\ call.arg = <<"m","y"," ","t","a","b","l","e">>
    /\ ret.val.ok /\ Len(ret.val.df) = 1
    /\ ret.ops[3].arg = <<"\"","m","y"," ","t","a","b","l","e","\"">>

\* a name with a hyphen was refused although the database has that table
C14_WitnessRefused ==
    /\ IsReadCall /\ call.arg = <<"m","y","-","t","a","b","l","e">>
    /\ Len(call.database) = 1 /\ call.database[1].name = call.arg
    /\ ~ret.val.ok /\ ret.ops = <<>>

C15_InvalidInput ==
    {"ValueError: db_path empty", "FileNotFoundError", "ValueError: not a file",
     "ValueError: output_path empty", "ValueError: extension",
     "ValueError: no tables"}

\* C15: when convert_db_to_excel fails for an empty path, a missing source,
\* a source that is no regular file, a wrong output extension or a database
\* without tables, no output directory and no output file has been created.
C15_FailsBeforeSideEffects ==
    (pc = "failed" /\ err \in C15_InvalidInput) =>
        ~fs.dir_made /\ fs.out_file = "absent"

\* the error of the first gate that the arguments and the database fail
C16_FirstFailure ==
    IF db_path.text \in {"empty", "blank"} THEN "ValueError: db_path empty"
    ELSE IF ~db_path.exists THEN "FileNotFoundError"
    ELSE IF ~db_path.is_file THEN "ValueError: not a file"
    ELSE IF output_path.text \in {"empty", "blank"} THEN "ValueError: output_path empty"
    ELSE IF lower(output_path.suffix) # <<".","x","l","s","x">>
         THEN "ValueError: extension"
    ELSE IF output_path.parent = "denied" THEN "PermissionError"
    ELSE IF output_path.parent = "blocked" THEN "OSError"
    ELSE IF get_all_tables(db) = <<>> THEN "ValueError: no tables"
    ELSE "none"

C16_Gates ==
    <<"validate_db_path", "validate_output_path", "mkdir", "get_all_tables">>

\* C16: the gates run in the order db path (empty, existence, regular
\* file), output path (empty, extension), output directory, table listing;
\* a call that fails at a gate reports the first gate that fails; no table
\* is read unless every gate passed; the source's extension decides nothing.
C16_GatesInOrder ==
    /\ \A k \in DOMAIN log : k <= Len(C16_Gates) => log[k][1] = C16_Gates[k]
    /\ (pc = "failed" /\ Len(log) <= Len(C16_Gates)) => err = C16_FirstFailure
    /\ C16_FirstFailure # "none" =>
          /\ Len(log) <= Len(C16_Gates) /\ tables = <<>>
          /\ \A k \in DOMAIN log : log[k][1] # "read_table"
          /\ Len(log) = Len(C16_Gates) => pc = "failed"
    /\ (C16_FirstFailure = "none" /\ pc = "failed") => Len(log) > Len(C16_Gates)

\* a source without the .db extension was converted
C16_Witness ==
    /\ db_path.suffix = <<".","s","q","l","i","t","e">>
    /\ pc = "done" /\ Len(tables) = 2

\* a missing source given with a wrong output extension: the source's
\* error is the one reported
C16_WitnessFirst ==
    /\ ~db_path.exists /\ db_path.text = "path"
    /\ output_path.suffix = <<".","x","l","s">>
    /\ pc = "failed" /\ err = "FileNotFoundError"

\* C17: every name that get_all_tables lists is accepted by read_table, so
\* a conversion with valid arguments fails only when no table is listed and
\* otherwise reads every listed table, whatever the names' characters.
C17_ListedTablesAccepted ==
    /\ \A k \in DOMAIN tables : read_table(db, tables[k]).ok
    /\ pc = "failed" => tables = <<>>
    /\ pc = "done" =>
          \A k \in DOMAIN tables : \E j \in DOMAIN log : log[j] = <<"read_table", k>>

====
